---- MODULE Spec2Model ----
(***************************************************************************)
(* Model of the scrape job scheduler (services/scrapeManager.js): the      *)
(* three-tier priority queue, the admission-controlled active set, the     *)
(* completed-job cache, the per-job pipeline of processJob with one step   *)
(* per await, and the queueJob / cancelJob / init entry points.            *)
(*                                                                         *)
(* JavaScript runs every stretch of code between two awaits atomically,    *)
(* so each action below is one such stretch: it starts where an awaited    *)
(* promise settles and runs up to the next await.  The awaited calls are   *)
(* the Job Store, the discovery service and the extractors; each of them   *)
(* either resolves or rejects, and the model draws that outcome with \E.   *)
(***************************************************************************)
EXTENDS Integers, Sequences, FiniteSets, TLC

\* ---------------------------------------------------------------- bounds
MaxJobs == 2          \* job ids 1..MaxJobs exist in a behaviour, numbered as they are enqueued
MaxPrior == 2         \* ids 1..MaxPrior may be left in the store by an earlier process
MaxPages == 1         \* discovery returns 0..MaxPages pages
MaxFaults == 1        \* awaited calls that reject in a behaviour
MaxCancels == 1       \* cancelJob calls in a behaviour
MAX_CONCURRENT_JOBS == 1   \* process.env.MAX_CONCURRENT_JOBS of the run

\* ------------------------------------------------------- program constants
MAX_COMPLETED_JOBS == 100

JobIds == 1..MaxJobs
PriorIds == 1..MaxPrior
TierNames == {"high", "normal", "low"}
Terminal == {"complete", "failed", "cancelled"}
Extractors == <<"images", "socialMedia", "blog", "colors", "general", "isbn">>

VARIABLES
    jobQueue,       \* [TierNames -> Seq(JobIds)]          jobQueue.high/normal/low
    activeJobs,     \* SUBSET JobIds                       keys of the activeJobs Map
    completedJobs,  \* SUBSET JobIds                       keys of the completedJobs Map
    job,            \* [JobIds -> job object]              the in-memory Job objects
    store,          \* [JobIds -> row]                     the scrape_jobs rows of the Job Store
    pc,             \* [JobIds -> position of processJob]  the await the worker is parked on
    pages,          \* [JobIds -> 0..MaxPages]             pages.length of the worker
    pageContents,   \* [JobIds -> 0..MaxPages]             pageContents.length of the worker
    domainInfoId,   \* [JobIds -> 0..MaxJobs]             domainInfoId of the worker (0: null)
    extracted,      \* [JobIds -> SUBSET extractor names]  extractor variables that are non-null
    extIdx,         \* [JobIds -> 0..6]                    extractors already awaited
    results,        \* [JobIds -> aggregate]               minimalResults / results of the worker
    savedResults,   \* [JobIds -> aggregate]               what saveResults(jobId, ...) has stored
    domainInfoData, \* [JobIds -> aggregate]               domain_info.data written for the job
    events,         \* [JobIds -> Seq(event)]              the last job-update events on job-{jobId}
    lastStarted,    \* Seq([job, tier])                    jobs the step just taken has started
    lastCrawl,      \* [crawled, pages]                    the last crawl of the domain, as stored
    io,             \* PublisherStates                     global.io, the event publisher
    maxConcurrent,  \* Nat                                 the const MAX_CONCURRENT_JOBS of the process
    domainRows,     \* Nat                                 rows of domain_info for the domain
    pendingJobs,    \* Seq([job, status, priority])        rows init() has just read from the store
    queueCall,      \* [JobIds -> state of queueJob(job)]
    cancelCall,     \* [JobIds -> state of cancelJob(jobId)]
    cancelRet,      \* [JobIds -> last value returned by cancelJob(jobId)]
    initDone,       \* BOOLEAN                             init() has run
    faults,         \* 0..MaxFaults                        rejections of awaited calls so far
    cancels         \* 0..MaxCancels                       cancelJob calls so far

vars == <<jobQueue, activeJobs, completedJobs, job, store, pc, pages, pageContents,
          domainInfoId, extracted, extIdx, results, savedResults, domainInfoData, events,
          lastStarted, pendingJobs, io, maxConcurrent, domainRows, lastCrawl,
          queueCall, cancelCall, cancelRet, initDone, faults, cancels>>

workerVars == <<pages, pageContents, domainInfoId, extracted, extIdx, results>>
resultVars == <<savedResults, domainInfoData>>
schedVars == <<jobQueue, activeJobs, job, pc>>

\* `pendingJobs` is a local of init(): it is gone in every other step.
InitReturned == pendingJobs' = <<>>

\* A step in which processNextJob() is not called starts no job.
NoDispatch == lastStarted' = <<>> /\ InitReturned
callVars == <<queueCall, cancelCall, cancelRet, initDone, cancels>>

\* The outcomes an awaited call may still have: it resolves (TRUE) or, while
\* the behaviour has rejections left, rejects (FALSE).
Outcomes == IF faults < MaxFaults THEN BOOLEAN ELSE {TRUE}

Settle(ok) == faults' = IF ok THEN faults ELSE faults + 1

\* ---------------------------------------------------------------- helpers
Range(s) == {s[i] : i \in 1..Len(s)}

InQueue(j) == \E t \in TierNames : j \in Range(jobQueue[t])

IndexOf(s, j) == CHOOSE i \in 1..Len(s) : s[i] = j

\* Array.prototype.splice(i, 1)
RemoveNothing(s, i) == s

RemoveAt(s, i) == SubSeq(s, 1, i - 1) \o SubSeq(s, i + 1, Len(s))

NoJob == [status |-> "none", progress |-> 0, message |-> "",
          startedAt |-> FALSE, completedAt |-> FALSE]

NoRow == [status |-> "absent"]

\* A job object as the transport layer hands it to queueJob.  Its priority
\* is read once, by the push that puts it in a tier, and is kept there.
NewJob == [status |-> "queued", progress |-> 0, message |-> "",
           startedAt |-> FALSE, completedAt |-> FALSE]

\* ------------------------------------------------------------- Job Store
\* saveJob(job): inserts the row of the job.  Of a row, the model keeps the
\* status; the priority column is read by init() alone, which draws it
\* where it reads it.
saveJob(st, j, jb) == [st EXCEPT ![j] = [status |-> jb.status]]

\* updateJobStatus(jobId, status, ...): updates the row when there is one;
\* the result is truthy when a row was changed.
updateJobStatus(st, j, s) ==
    IF st[j].status = "absent" THEN st ELSE [st EXCEPT ![j].status = s]

RowExists(st, j) == st[j].status # "absent"

\* getPendingJobs(): the ids of the non-terminal rows, in id order.
RECURSIVE PendingFrom(_, _)
PendingFrom(st, j) ==
    IF j > MaxJobs THEN <<>>
    ELSE (IF st[j].status \in {"queued", "processing"} THEN <<j>> ELSE <<>>)
         \o PendingFrom(st, j + 1)

getPendingJobs(st) == PendingFrom(st, 1)

\* completedJobs.set(jobId, job): the only call that changes the completed
\* cache; nothing reads its size and nothing deletes from it.
completedJobsSet(c, id) == c \cup {id}

\* ------------------------------------------------------------ dispatcher
\* The tier processNextJob takes the next job from ("none": all empty).
NextTierNormalFirst(q) ==
    IF Len(q["normal"]) > 0 THEN "normal"
    ELSE IF Len(q["high"]) > 0 THEN "high"
    ELSE IF Len(q["low"]) > 0 THEN "low"
    ELSE "none"

NextTier(q) ==
    IF Len(q["high"]) > 0 THEN "high"
    ELSE IF Len(q["normal"]) > 0 THEN "normal"
    ELSE IF Len(q["low"]) > 0 THEN "low"
    ELSE "none"

\* Array.prototype.shift on a non-empty tier.
shiftLast(s) == [item |-> s[Len(s)], rest |-> SubSeq(s, 1, Len(s) - 1)]

shift(s) == [item |-> Head(s), rest |-> Tail(s)]

\* The capacity test of processNextJob, and the test that guards its calls
\* from queueJob and from itself.
AtCapacity(act) == Cardinality(act) >= maxConcurrent

HasRoom(act) == Cardinality(act) < maxConcurrent

\* processNextJob without its capacity tests.
RECURSIVE processNextJobUnbounded(_, _, _)
processNextJobUnbounded(q, act, started) ==
    LET t == NextTier(q) IN
    IF t = "none" THEN [q |-> q, act |-> act, started |-> started]
    ELSE LET sh == shift(q[t]) IN
         processNextJobUnbounded([q EXCEPT ![t] = sh.rest], act \cup {sh.item},
                                 Append(started, [job |-> sh.item, tier |-> t]))

\* processNextJob together with the synchronous head of each processJob it
\* calls (the job becomes 'processing' and enters activeJobs before the
\* first await), and the recursive call that fills the remaining slots.
\* `started` lists the jobs taken, each with the tier it was taken from.
RECURSIVE processNextJob(_, _, _)
processNextJob(q, act, started) ==
    IF AtCapacity(act) THEN [q |-> q, act |-> act, started |-> started]
    ELSE LET t == NextTier(q) IN
         IF t = "none" THEN [q |-> q, act |-> act, started |-> started]
         ELSE LET sh == shift(q[t])
                  q2 == [q EXCEPT ![t] = sh.rest]
                  act2 == act \cup {sh.item}
                  st2 == Append(started, [job |-> sh.item, tier |-> t])
              IN  IF HasRoom(act2)
                  THEN processNextJob(q2, act2, st2)
                  ELSE [q |-> q2, act |-> act2, started |-> st2]

\* The same, had processNextJob read the head of a tier without shifting it.
DispatchKeepsQueue(q, act, jobf, pcf) ==
    LET r == processNextJob(q, act, <<>>)
        ids == {r.started[i].job : i \in 1..Len(r.started)}
    IN
    /\ jobQueue' = q
    /\ activeJobs' = r.act
    /\ job' = [j \in JobIds |->
                 IF j \in ids
                 THEN [jobf[j] EXCEPT !.status = "processing", !.startedAt = TRUE]
                 ELSE jobf[j]]
    /\ pc' = [j \in JobIds |-> IF j \in ids THEN "updProcessing" ELSE pcf[j]]
    /\ lastStarted' = r.started

\* The state after processNextJob() was called with queue q, active set act,
\* job objects jobf and worker positions pcf.
Dispatch(q, act, jobf, pcf) ==
    LET r == processNextJob(q, act, <<>>)
        ids == {r.started[i].job : i \in 1..Len(r.started)}
    IN
    /\ jobQueue' = r.q
    /\ activeJobs' = r.act
    /\ job' = [j \in JobIds |->
                 IF j \in ids
                 THEN [jobf[j] EXCEPT !.status = "processing", !.startedAt = TRUE]
                 ELSE jobf[j]]
    /\ pc' = [j \in JobIds |-> IF j \in ids THEN "updProcessing" ELSE pcf[j]]
    /\ lastStarted' = r.started

\* emitSocketEvent('job-' + jobId, 'job-update', {jobId, status, progress, message}):
\* the observer of channel job-{jobId} keeps the last EventWindow events.
EventWindow == 2

Observe(o, e) == IF Len(o) < EventWindow THEN Append(o, e) ELSE Append(Tail(o), e)

\* global.io: set by the server and working ("ok"), not set ("absent"), or
\* set with an emit that raises ("raises").
PublisherStates == {"ok", "absent", "raises"}

emitSocketEvent(ev, j, jb, msg) ==
    IF io = "ok"
    THEN [ev EXCEPT ![j] = Observe(@, [status |-> jb.status, progress |-> jb.progress,
                                       message |-> msg])]
    ELSE ev

\* Where the worker goes after a call of emitSocketEvent when nothing
\* catches what emit raises: to the outer catch of processJob.
AfterEmitUncaught(next) == IF io = "raises" THEN "thrown" ELSE next

\* Where the worker goes after a call of emitSocketEvent: on, since the
\* try/catch of emitSocketEvent swallows whatever emit raises.
AfterEmit(next) == next

\* ----------------------------------------------------- aggregate results
\* No aggregate: the local is not initialised yet, the table has no row.
NoResults == [unset |-> TRUE]

\* The sections the aggregate result is documented to have.
Sections == {"general", "blog", "images", "colors", "socialMedia", "isbn"}

\* What extractor e resolves to: data of that extractor, opaque here.
Output(e) == [from |-> e]

DefaultColors == [primaryColor |-> "#4285f4",
                  secondaryColors |-> <<"#ea4335", "#fbbc05", "#34a853">>]

\* The object literal `minimalResults` of the zero-pages branch.
minimalResults ==
    [domain |-> "job.domain",
     general |-> [title |-> "job.domain Website", sections |-> <<>>, prominentLinks |-> <<>>],
     blog |-> [hasBlog |-> FALSE, blogUrl |-> "null", articles |-> <<>>],
     images |-> [all |-> <<>>, heroImages |-> <<>>, brandImages |-> <<>>,
                 productImages |-> <<>>, contentImages |-> <<>>, otherImages |-> <<>>],
     colors |-> DefaultColors,
     isbn |-> [isbns |-> <<>>, isbnImages |-> <<>>]]

\* The fallback literal on the right of `xData || {...}` for each section.
DefaultSection(e) ==
    CASE e = "general" -> [title |-> "job.domain", sections |-> <<>>, prominentLinks |-> <<>>]
      [] e = "blog" -> [hasBlog |-> FALSE, blogUrl |-> "null", articles |-> <<>>]
      [] e = "images" -> [all |-> <<>>, heroImages |-> <<>>, brandImages |-> <<>>]
      [] e = "colors" -> DefaultColors
      [] e = "socialMedia" -> [links |-> <<>>, content |-> <<>>]
      [] e = "isbn" -> [isbns |-> <<>>, isbnImages |-> <<>>]

\* `xData || {...}`: xData is null unless its extractor resolved.
OrNull(ext, e) == IF e \in ext THEN Output(e) ELSE NoResults

OrDefault(ext, e) == IF e \in ext THEN Output(e) ELSE DefaultSection(e)

\* The object `results` built from the extractor variables that are set
\* (ext) and pages.length (n).
BuildResults(ext, n) ==
    [domain |-> "job.domain",
     pageCount |-> n,
     general |-> OrDefault(ext, "general"),
     blog |-> OrDefault(ext, "blog"),
     images |-> OrDefault(ext, "images"),
     colors |-> OrDefault(ext, "colors"),
     socialMedia |-> OrDefault(ext, "socialMedia"),
     isbn |-> OrDefault(ext, "isbn")]

\* ------------------------------------------------------------------ Init
\* The process has just been loaded: the queue and both maps are empty, and
\* the store holds the pending jobs an earlier process lifetime left in it,
\* which have the first ids.
InitState ==
    /\ jobQueue = [t \in TierNames |-> <<>>]
    /\ activeJobs = {}
    /\ completedJobs = {}
    /\ job = [j \in JobIds |-> NoJob]
    /\ store \in [JobIds -> [status : {"absent", "queued", "processing"}]]
    /\ \A j \in JobIds : j \notin PriorIds => store[j] = NoRow
    /\ \A j \in JobIds \ {1} : store[j] # NoRow => store[j - 1] # NoRow
    /\ pc = [j \in JobIds |-> "idle"]
    /\ pages = [j \in JobIds |-> 0]
    /\ pageContents = [j \in JobIds |-> 0]
    /\ domainInfoId = [j \in JobIds |-> 0]
    /\ domainRows = 0
    /\ extracted = [j \in JobIds |-> {}]
    /\ extIdx = [j \in JobIds |-> 0]
    /\ results = [j \in JobIds |-> NoResults]
    /\ savedResults = [j \in JobIds |-> NoResults]
    /\ domainInfoData = [j \in JobIds |-> NoResults]
    /\ events = [j \in JobIds |-> <<>>]
    /\ lastStarted = <<>>
    /\ pendingJobs = <<>>
    /\ lastCrawl = [crawled |-> FALSE, pages |-> 0]
    /\ queueCall = [j \in JobIds |-> "none"]
    /\ cancelCall = [j \in JobIds |-> "idle"]
    /\ cancelRet = [j \in JobIds |-> "none"]
    /\ initDone = FALSE
    /\ faults = 0
    /\ cancels = 0

\* The servers set global.io before they call init(), and the process runs
\* with the capacity its environment gives.
Init == InitState /\ io = "ok" /\ maxConcurrent = MAX_CONCURRENT_JOBS

\* The scheduler loaded by a process that has no publisher, or a failing one.
InitPublisher == InitState /\ io \in PublisherStates /\ maxConcurrent = MAX_CONCURRENT_JOBS

\* ---------------------------------------------------------------- init()
\* init(): the pending jobs of the store are pushed into their tiers
\* ('processing' demoted to 'queued', an invalid priority read as normal)
\* and processNextJob() is called; when getPendingJobs rejects, only
\* processNextJob() is called.  The server awaits init() before it listens.
\* The priority column of a pending row: a tier name, or anything else.
RowPriorities == {"high", "normal", "low", "bogus"}

RECURSIVE PushAll(_, _, _)
PushAll(q, ids, prio) ==
    IF ids = <<>> THEN q
    ELSE LET j == Head(ids)
             p == IF prio[j] \in TierNames THEN prio[j] ELSE "normal"
         IN  PushAll([q EXCEPT ![p] = Append(@, j)], Tail(ids), prio)

\* A pending job object pushed as it was read.
RecoverKeeps(jb) == jb

\* What init() does to a pending job object before it pushes it.
Recover(jb) == IF jb.status = "processing" THEN [jb EXCEPT !.status = "queued"] ELSE jb

\* The job object getPendingJobs() builds from a row.
RowJob(row) == [NewJob EXCEPT !.status = row.status]

init ==
    /\ ~initDone
    /\ initDone' = TRUE
    /\ \E ok \in Outcomes, prio \in [PriorIds -> RowPriorities] :
         LET pending == IF ok THEN getPendingJobs(store) ELSE <<>>
             jobf == [j \in JobIds |->
                        IF j \in Range(pending) THEN Recover(RowJob(store[j])) ELSE job[j]]
         IN  /\ Settle(ok)
             /\ pendingJobs' = [i \in 1..Len(pending) |->
                                 [job |-> pending[i], status |-> store[pending[i]].status,
                                  priority |-> prio[pending[i]]]]
             /\ Dispatch(PushAll(jobQueue, pending, prio), activeJobs, jobf, pc)
    /\ queueCall' = [j \in JobIds |-> IF RowExists(store, j) THEN "prior" ELSE queueCall[j]]
    /\ UNCHANGED <<io, maxConcurrent, domainRows, lastCrawl, completedJobs, store, events, workerVars, resultVars, cancelCall, cancelRet, cancels>>

\* -------------------------------------------------------------- queueJob
\* Job ids are opaque and unique: a new job takes the first unused id.
FreshId(j) == /\ queueCall[j] = "none"
              /\ \A i \in 1..(j - 1) : queueCall[i] # "none"

\* queueJob(job) with the push done before the store write is awaited.
queueJobFailPushes(j) ==
    /\ initDone
    /\ FreshId(j)
    /\ FALSE \in Outcomes
    /\ Settle(FALSE)
    /\ queueCall' = [queueCall EXCEPT ![j] = "threw"]
    /\ jobQueue' = [jobQueue EXCEPT !["normal"] = Append(@, j)]
    /\ NoDispatch
    /\ UNCHANGED <<io, maxConcurrent, domainRows, lastCrawl, activeJobs, job, pc, completedJobs, store, events, workerVars,
                   resultVars, cancelCall, cancelRet, initDone, cancels>>

\* queueJob(job) when saveJob rejects: 'Failed to queue job' is thrown and
\* the job object, never pushed, is dropped.
queueJobFail(j) ==
    /\ initDone
    /\ FreshId(j)
    /\ FALSE \in Outcomes
    /\ Settle(FALSE)
    /\ queueCall' = [queueCall EXCEPT ![j] = "threw"]
    /\ NoDispatch
    /\ UNCHANGED <<io, maxConcurrent, domainRows, lastCrawl, schedVars, completedJobs, store, events, workerVars, resultVars,
                   cancelCall, cancelRet, initDone, cancels>>

\* The value queueJob returns, read from the job object after the push and
\* the call of processNextJob(): `{jobId, status: job.status, estimatedTime}`.
queueJobReturn(jb) == [status |-> jb.status, estimatedTime |-> "30s"]

\* queueJob(job) when saveJob resolves, for a fresh job object of priority
\* p and status 'queued': the job is pushed to its tier, processNextJob()
\* runs when the active set is below capacity, and {jobId, status} is
\* returned with the status the job object has at that moment.  Nothing in
\* memory changes before the await, so the call is one step.
queueJob(j, p) ==
    /\ initDone
    /\ FreshId(j)
    /\ store' = saveJob(store, j, NewJob)
    /\ LET q == [jobQueue EXCEPT ![p] = Append(@, j)]
           jobf == [job EXCEPT ![j] = NewJob]
       IN  IF HasRoom(activeJobs)
           THEN Dispatch(q, activeJobs, jobf, pc) /\ InitReturned
           ELSE /\ jobQueue' = q
                /\ job' = jobf
                /\ NoDispatch
                /\ UNCHANGED <<io, maxConcurrent, domainRows, lastCrawl, activeJobs, pc>>
    /\ queueCall' = [queueCall EXCEPT ![j] = "returned"]
    /\ UNCHANGED <<io, maxConcurrent, domainRows, lastCrawl, completedJobs, events, workerVars, resultVars, cancelCall, cancelRet, initDone,
                   faults, cancels>>

\* ------------------------------------------------------------ processJob
\* The synchronous head of processJob (status 'processing', startedAt,
\* activeJobs.set) is part of Dispatch; the steps below resume the worker
\* of job j at the await it is parked on.

SetProgress(jb, p, msg) == [jb EXCEPT !.progress = p, !.message = msg]

\* The same four assignments with the status 'failed'.
MarkFailed(jb, msg) ==
    [jb EXCEPT !.status = "failed", !.progress = 100, !.message = msg, !.completedAt = TRUE]

\* `job.status = 'complete'; job.progress = 100; job.message = ...; job.completedAt = ...`
Complete(jb, msg) ==
    [jb EXCEPT !.status = "complete", !.progress = 100, !.message = msg, !.completedAt = TRUE]

\* The locals of processJob(j) go away when the call returns or throws.
DropLocals(j) ==
    /\ pages' = [pages EXCEPT ![j] = 0]
    /\ pageContents' = [pageContents EXCEPT ![j] = 0]
    /\ domainInfoId' = [domainInfoId EXCEPT ![j] = 0]
    /\ extracted' = [extracted EXCEPT ![j] = {}]
    /\ extIdx' = [extIdx EXCEPT ![j] = 0]
    /\ results' = [results EXCEPT ![j] = NoResults]

\* The awaited call rejects and the rejection reaches the outer catch of
\* processJob, which logs and rethrows: no field of the job, no map and
\* no queue is touched, and processNextJob() is not called.
Throw(j) ==
    /\ FALSE \in Outcomes
    /\ Settle(FALSE)
    /\ pc' = [pc EXCEPT ![j] = "thrown"]
    /\ DropLocals(j)
    /\ NoDispatch
    /\ UNCHANGED <<io, maxConcurrent, domainRows, lastCrawl, jobQueue, activeJobs, completedJobs, job, store, events,
                   callVars, resultVars>>

\* await updateJobStatus(jobId, 'processing', startedAt): a rejection is
\* logged and swallowed.
updProcessing(j) ==
    /\ pc[j] = "updProcessing"
    /\ \E ok \in Outcomes :
         /\ Settle(ok)
         /\ store' = IF ok THEN updateJobStatus(store, j, "processing") ELSE store
    /\ pc' = [pc EXCEPT ![j] = "canResume"]
    /\ NoDispatch
    /\ UNCHANGED <<io, maxConcurrent, domainRows, lastCrawl, jobQueue, activeJobs, completedJobs, job, events,
                   workerVars, callVars, resultVars>>

\* await canResumeJob(jobId), then progress 10 and the first job-update.
canResume(j) ==
    /\ pc[j] = "canResume"
    /\ \/ Throw(j)
       \/ LET jb == SetProgress(job[j], 10, "Discovering pages") IN
          /\ job' = [job EXCEPT ![j] = jb]
          /\ events' = emitSocketEvent(events, j, jb, jb.message)
          /\ pc' = [pc EXCEPT ![j] = AfterEmit("domainInfo")]
          /\ NoDispatch
          /\ UNCHANGED <<io, maxConcurrent, domainRows, lastCrawl, jobQueue, activeJobs, completedJobs, store,
                         workerVars, callVars, resultVars, faults>>

\* INSERT INTO domain_info (domain, ...) as the store runs it: the column
\* `domain` is unique, so the row is inserted, with the next id, when the
\* domain has no row, and the statement is rejected when it has one.
insertDomainInfo(rows) ==
    IF rows = 0 THEN [ok |-> TRUE, rows |-> 1, insertId |-> 1]
    ELSE [ok |-> FALSE, rows |-> rows, insertId |-> 0]

\* await query('SELECT id FROM domain_info WHERE domain = ?'): with a row,
\* domainInfoId is its id; with none the worker goes on to the INSERT; a
\* rejection is caught by the try/catch around both and leaves
\* domainInfoId null.
domainSelect(j) ==
    /\ pc[j] = "domainInfo"
    /\ \E ok \in Outcomes :
         /\ Settle(ok)
         /\ domainInfoId' = [domainInfoId EXCEPT ![j] = IF ok /\ domainRows > 0 THEN 1 ELSE 0]
         /\ pc' = [pc EXCEPT ![j] = IF ok /\ domainRows = 0 THEN "domainInsert" ELSE "discover"]
    /\ NoDispatch
    /\ UNCHANGED <<io, maxConcurrent, domainRows, lastCrawl, jobQueue, activeJobs, completedJobs,
                   job, store, events, pages, pageContents, extracted, extIdx, results, callVars,
                   resultVars>>

\* await query('INSERT INTO domain_info ...'): domainInfoId is
\* result.insertId; a rejection, of the call or of the statement, is caught
\* and leaves domainInfoId null.
domainInsert(j) ==
    /\ pc[j] = "domainInsert"
    /\ \E ok \in Outcomes :
         LET r == insertDomainInfo(domainRows) IN
         /\ Settle(ok)
         /\ domainRows' = IF ok THEN r.rows ELSE domainRows
         /\ domainInfoId' = [domainInfoId EXCEPT ![j] = IF ok /\ r.ok THEN r.insertId ELSE 0]
    /\ pc' = [pc EXCEPT ![j] = "discover"]
    /\ NoDispatch
    /\ UNCHANGED <<io, maxConcurrent, lastCrawl, jobQueue, activeJobs, completedJobs, job, store,
                   events, pages, pageContents, extracted, extIdx, results, callVars, resultVars>>

\* The option `bypassCooldown: true` processJob passes to discoverPages.
bypassCooldown == TRUE

\* discoverPages(domain, depth, jobId, options): the page counts the call
\* may resolve to.  Within the cooldown window of a crawl of the domain,
\* and unless the cooldown is bypassed, it is the stored page set of that
\* crawl and nothing is fetched; otherwise the domain is crawled again.
\* The jobs of a behaviour are for one domain, within one cooldown window.
discoverPages(last, bypass) ==
    IF last.crawled /\ ~bypass THEN {last.pages} ELSE 0..MaxPages

\* await discoverPages(...): a rejection reaches the outer catch; zero
\* pages take the minimal-results branch (minimalResults is built,
\* progress 90), otherwise the page loop starts (progress 30).
discover(j) ==
    /\ pc[j] = "discover"
    /\ \/ Throw(j)
       \/ \E n \in discoverPages(lastCrawl, bypassCooldown) :
            LET jb == IF n = 0 THEN SetProgress(job[j], 90, "Saving minimal results")
                      ELSE SetProgress(job[j], 30, "Extracting content")
            IN  /\ pages' = [pages EXCEPT ![j] = n]
                /\ lastCrawl' = [crawled |-> TRUE, pages |-> n]
                /\ results' = [results EXCEPT ![j] = IF n = 0 THEN minimalResults ELSE @]
                /\ job' = [job EXCEPT ![j] = jb]
                /\ events' = emitSocketEvent(events, j, jb, jb.message)
                /\ pc' = [pc EXCEPT ![j] = AfterEmit(IF n = 0 THEN "minSave" ELSE "extractPage")]
                /\ NoDispatch
                /\ UNCHANGED <<io, maxConcurrent, domainRows, jobQueue, activeJobs, completedJobs, store,
                               pageContents, domainInfoId, extracted, extIdx, callVars, resultVars,
                               faults>>

\* await saveResults(jobId, minimalResults), then the job object is marked
\* complete; a rejection is rethrown as 'Failed to save minimal results'.
minSave(j) ==
    /\ pc[j] = "minSave"
    /\ \/ Throw(j)
       \/ /\ savedResults' = [savedResults EXCEPT ![j] = results[j]]
          /\ job' = [job EXCEPT ![j] = Complete(@, "Scrape completed with minimal results")]
          /\ pc' = [pc EXCEPT ![j] = "minUpdate"]
          /\ NoDispatch
          /\ UNCHANGED <<io, maxConcurrent, domainRows, lastCrawl, jobQueue, activeJobs, completedJobs, store, events,
                         workerVars, domainInfoData, callVars, faults>>

\* The same tail ending in a bare `return`: processNextJob() is not called.
FinishNoDispatch(j) ==
    /\ store' = updateJobStatus(store, j, "complete")
    /\ events' = emitSocketEvent(events, j, job[j], job[j].message)
    /\ completedJobs' = completedJobsSet(completedJobs, j)
    /\ activeJobs' = activeJobs \ {j}
    /\ pc' = [pc EXCEPT ![j] = AfterEmit("done")]
    /\ NoDispatch
    /\ DropLocals(j)
    /\ UNCHANGED <<io, maxConcurrent, domainRows, lastCrawl, jobQueue, job, callVars, resultVars, faults>>

\* The tail shared by both branches, run when `await updateJobStatus(jobId,
\* 'complete', ...)` resolves: the completion event, activeJobs.delete,
\* completedJobs.set and `return processNextJob()`.
Finish(j) ==
    /\ store' = updateJobStatus(store, j, "complete")
    /\ events' = emitSocketEvent(events, j, job[j], job[j].message)
    /\ completedJobs' = completedJobsSet(completedJobs, j)
    /\ Dispatch(jobQueue, activeJobs \ {j}, job, [pc EXCEPT ![j] = AfterEmit("done")])
    /\ InitReturned
    /\ DropLocals(j)
    /\ UNCHANGED <<io, maxConcurrent, domainRows, lastCrawl, callVars, resultVars, faults>>

minUpdate(j) ==
    /\ pc[j] = "minUpdate"
    /\ \/ Throw(j)
       \/ Finish(j)

\* Math.min(30 + Math.floor((k / n) * 30), 60)
PageProgress(k, n) ==
    LET v == 30 + ((k * 30) \div n) IN IF v < 60 THEN v ELSE 60

\* One round of the page loop: await extractPageContent(page.url), the
\* incremental progress and its event; after the last page, progress 60
\* and the 'Extracting detailed information' event.
extractPage(j) ==
    /\ pc[j] = "extractPage"
    /\ \/ Throw(j)
       \/ LET k == pageContents[j] + 1
              jb1 == [job[j] EXCEPT !.progress = PageProgress(k, pages[j])]
              ev1 == emitSocketEvent(events, j, jb1, "Extracted content from pages")
              jb2 == SetProgress(jb1, 60, "Extracting detailed information")
          IN  /\ pageContents' = [pageContents EXCEPT ![j] = k]
              /\ IF k < pages[j]
                 THEN /\ job' = [job EXCEPT ![j] = jb1]
                      /\ events' = ev1
                      /\ pc' = [pc EXCEPT ![j] = AfterEmit("extractPage")]
                 ELSE /\ job' = [job EXCEPT ![j] = jb2]
                      /\ events' = emitSocketEvent(ev1, j, jb2, jb2.message)
                      /\ pc' = [pc EXCEPT ![j] = AfterEmit("extractors")]
              /\ NoDispatch
              /\ UNCHANGED <<io, maxConcurrent, domainRows, lastCrawl, jobQueue, activeJobs, completedJobs, store,
                             pages, domainInfoId, extracted, extIdx, results, callVars,
                             resultVars, faults>>

\* One extractor: `await xExtractor.extract(...)` inside its own try/catch;
\* a rejection leaves the extractor's variable null.  After the sixth one:
\* progress 80 with its event, the results object is built and, when there
\* is no domainInfoId, the job object is marked complete at once.
extractor(j) ==
    /\ pc[j] = "extractors"
    /\ \E ok \in Outcomes :
         LET i == extIdx[j] + 1
             jb1 == SetProgress(job[j], 80, "Building final results")
         IN  /\ Settle(ok)
             /\ extIdx' = [extIdx EXCEPT ![j] = i]
             /\ extracted' = [extracted EXCEPT ![j] = IF ok THEN @ \cup {Extractors[i]} ELSE @]
             /\ IF i < Len(Extractors)
                THEN UNCHANGED <<io, maxConcurrent, domainRows, lastCrawl, job, events, pc, results>>
                ELSE /\ events' = emitSocketEvent(events, j, jb1, jb1.message)
                     /\ results' = [results EXCEPT ![j] = BuildResults(extracted'[j], pages[j])]
                     /\ IF domainInfoId[j] # 0
                        THEN /\ job' = [job EXCEPT ![j] = jb1]
                             /\ pc' = [pc EXCEPT ![j] = AfterEmit("storeData")]
                        ELSE /\ job' = [job EXCEPT ![j] = Complete(jb1, "Scrape completed")]
                             /\ pc' = [pc EXCEPT ![j] = AfterEmit("finalUpdate")]
    /\ NoDispatch
    /\ UNCHANGED <<io, maxConcurrent, domainRows, lastCrawl, jobQueue, activeJobs, completedJobs, store,
                   pages, pageContents, domainInfoId, callVars, resultVars>>

\* await query('UPDATE domain_info SET data = ? ...'): a rejection is
\* swallowed; either way the job object is then marked complete.
storeData(j) ==
    /\ pc[j] = "storeData"
    /\ \E ok \in Outcomes :
         /\ Settle(ok)
         /\ domainInfoData' = [domainInfoData EXCEPT ![j] = IF ok THEN results[j] ELSE @]
    /\ job' = [job EXCEPT ![j] = Complete(@, "Scrape completed")]
    /\ pc' = [pc EXCEPT ![j] = "finalUpdate"]
    /\ NoDispatch
    /\ UNCHANGED <<io, maxConcurrent, domainRows, lastCrawl, jobQueue, activeJobs, completedJobs, store, events,
                   workerVars, savedResults, callVars>>

finalUpdate(j) ==
    /\ pc[j] = "finalUpdate"
    /\ \/ Throw(j)
       \/ Finish(j)

processJob(j) ==
    \/ updProcessing(j)
    \/ canResume(j)
    \/ domainSelect(j)
    \/ domainInsert(j)
    \/ discover(j)
    \/ minSave(j)
    \/ minUpdate(j)
    \/ extractPage(j)
    \/ extractor(j)
    \/ storeData(j)
    \/ finalUpdate(j)

\* ---------------------------------------------------------- getJobStatus
\* getJobStatus(jobId) with the store consulted first.
getJobStatusStoreFirst(j) ==
    IF RowExists(store, j) THEN [from |-> "store", status |-> store[j].status]
    ELSE IF j \in activeJobs THEN [from |-> "activeJobs", status |-> job[j].status]
    ELSE IF j \in completedJobs THEN [from |-> "completedJobs", status |-> job[j].status]
    ELSE [from |-> "store", status |-> store[j].status]

\* getJobStatus(jobId): the entry of activeJobs, else the entry of
\* completedJobs, else what the store's getJobStatus resolves to.  The call
\* changes nothing, so it is an operator on the state; `from` names the
\* place the answer was read from.
getJobStatus(j) ==
    IF j \in activeJobs THEN [from |-> "activeJobs", status |-> job[j].status]
    ELSE IF j \in completedJobs THEN [from |-> "completedJobs", status |-> job[j].status]
    ELSE [from |-> "store", status |-> store[j].status]

\* ------------------------------------------------------------- cancelJob
\* cancelJob(jobId) up to its await, for a job that is active (the job
\* object is marked cancelled with progress 0) or waits in a tier (it is
\* spliced out); each branch then awaits updateJobStatus.
cancelJobCall(j) ==
    /\ initDone
    /\ cancels < MaxCancels
    /\ cancels' = cancels + 1
    /\ cancelCall[j] = "idle"
    /\ IF j \in activeJobs
       THEN /\ job' = [job EXCEPT ![j] = [@ EXCEPT !.status = "cancelled", !.progress = 0,
                                            !.message = "Job cancelled by user",
                                            !.completedAt = TRUE]]
            /\ cancelCall' = [cancelCall EXCEPT ![j] = "active"]
            /\ UNCHANGED jobQueue
       ELSE /\ InQueue(j)
            /\ LET t == CHOOSE t \in TierNames : j \in Range(jobQueue[t]) IN
               jobQueue' = [jobQueue EXCEPT ![t] = RemoveAt(@, IndexOf(@, j))]
            /\ cancelCall' = [cancelCall EXCEPT ![j] = "queued"]
            /\ UNCHANGED job
    /\ NoDispatch
    /\ UNCHANGED <<io, maxConcurrent, domainRows, lastCrawl, activeJobs, completedJobs, store, pc, events, workerVars, resultVars,
                   queueCall, cancelRet, initDone, faults>>

\* The catch block of cancelJob: it logs and returns
\* {success: false, message: 'Error cancelling job: ...'} ("error"); a
\* catch that rethrew would make the call raise ("threw").
cancelCatchRethrows == "threw"

cancelCatch == "error"

\* updateJobStatus rejected in the active or the queued branch.
cancelJobFail(j) ==
    /\ cancelCall[j] # "idle"
    /\ FALSE \in Outcomes
    /\ Settle(FALSE)
    /\ cancelCall' = [cancelCall EXCEPT ![j] = "idle"]
    /\ cancelRet' = [cancelRet EXCEPT ![j] = cancelCatch]
    /\ NoDispatch
    /\ UNCHANGED <<io, maxConcurrent, domainRows, lastCrawl, schedVars, completedJobs, store, events, workerVars, resultVars,
                   queueCall, initDone, cancels>>

\* The active branch without its call of processNextJob().
cancelJobActiveNoDispatch(j) ==
    /\ cancelCall[j] = "active"
    /\ store' = updateJobStatus(store, j, "cancelled")
    /\ completedJobs' = completedJobsSet(completedJobs, j)
    /\ activeJobs' = activeJobs \ {j}
    /\ NoDispatch
    /\ cancelCall' = [cancelCall EXCEPT ![j] = "idle"]
    /\ cancelRet' = [cancelRet EXCEPT ![j] = "activeOk"]
    /\ UNCHANGED <<io, maxConcurrent, domainRows, lastCrawl, jobQueue, job, pc, events, workerVars, resultVars, queueCall, initDone,
                   faults, cancels>>

\* updateJobStatus resolved in the active branch: activeJobs.delete,
\* completedJobs.set, processNextJob(), {success: true}.
cancelJobActive(j) ==
    /\ cancelCall[j] = "active"
    /\ store' = updateJobStatus(store, j, "cancelled")
    /\ completedJobs' = completedJobsSet(completedJobs, j)
    /\ Dispatch(jobQueue, activeJobs \ {j}, job, pc)
    /\ InitReturned
    /\ cancelCall' = [cancelCall EXCEPT ![j] = "idle"]
    /\ cancelRet' = [cancelRet EXCEPT ![j] = "activeOk"]
    /\ UNCHANGED <<io, maxConcurrent, domainRows, lastCrawl, events, workerVars, resultVars, queueCall, initDone, faults, cancels>>

\* updateJobStatus resolved in the queued branch: {success: true}.
cancelJobQueued(j) ==
    /\ cancelCall[j] = "queued"
    /\ store' = updateJobStatus(store, j, "cancelled")
    /\ cancelCall' = [cancelCall EXCEPT ![j] = "idle"]
    /\ cancelRet' = [cancelRet EXCEPT ![j] = "queuedOk"]
    /\ NoDispatch
    /\ UNCHANGED <<io, maxConcurrent, domainRows, lastCrawl, schedVars, completedJobs, events, workerVars, resultVars, queueCall, initDone,
                   faults, cancels>>

\* cancelJob(jobId) for a job found neither in activeJobs nor in a tier:
\* nothing in memory is touched before or after the await, so the call is
\* one step.  updateJobStatus resolves: success when a row was changed,
\* 'Job not found' otherwise; it rejects: {success: false}.
cancelJobDb(j) ==
    /\ initDone
    /\ cancels < MaxCancels
    /\ cancels' = cancels + 1
    /\ cancelCall[j] = "idle"
    /\ j \notin activeJobs
    /\ ~InQueue(j)
    /\ \E ok \in Outcomes :
         /\ Settle(ok)
         /\ store' = IF ok THEN updateJobStatus(store, j, "cancelled") ELSE store
         /\ cancelRet' = [cancelRet EXCEPT ![j] =
                            IF ~ok THEN cancelCatch
                            ELSE IF RowExists(store, j) THEN "dbOk" ELSE "notFound"]
    /\ NoDispatch
    /\ UNCHANGED <<io, maxConcurrent, domainRows, lastCrawl, schedVars, completedJobs, events, workerVars, resultVars, queueCall, cancelCall,
                   initDone>>

cancelJob(j) ==
    \/ cancelJobCall(j)
    \/ cancelJobFail(j)
    \/ cancelJobActive(j)
    \/ cancelJobQueued(j)
    \/ cancelJobDb(j)

Next ==
    \/ init
    \/ \E j \in JobIds, p \in TierNames : queueJob(j, p)
    \/ \E j \in JobIds : queueJobFail(j)
    \/ \E j \in JobIds : processJob(j)
    \/ \E j \in JobIds : cancelJob(j)

Spec == Init /\ [][Next]_vars

\* The completed cache over a long run.  One step is the whole life of one
\* more job, with an id of its own, from queueJob to the end of its worker
\* or to its cancellation: when it is over the tiers and the active set are
\* as they were and completedJobs.set has been called once with the id.
MaxCompletions == 101   \* jobs that end in such a run

jobEnds ==
    /\ Cardinality(completedJobs) < MaxCompletions
    /\ completedJobs' = completedJobsSet(completedJobs, Cardinality(completedJobs) + 1)
    /\ UNCHANGED <<jobQueue, activeJobs, job, store, pc, workerVars, resultVars, events,
                   lastStarted, pendingJobs, io, maxConcurrent, domainRows, lastCrawl, callVars, faults>>

SpecCache == Init /\ [][jobEnds]_vars

\* The same program under any state of the publisher.
SpecPublisher == InitPublisher /\ [][Next]_vars

\* The same program under a capacity that may leave room for one more
\* concurrent job, so that two workers are in their pipelines at once.
InitConcurrent ==
    /\ InitState
    /\ io = "ok"
    /\ maxConcurrent \in {MAX_CONCURRENT_JOBS, MAX_CONCURRENT_JOBS + 1}

SpecConcurrent == InitConcurrent /\ [][Next]_vars

\* ------------------------------------------------------------ properties
Last(s) == s[Len(s)]

ProcessingJobs == {j \in JobIds : job[j].status = "processing"}

\* The jobs whose processJob starts in a step.
StartedNow == {j \in JobIds : pc[j] = "idle" /\ pc'[j] = "updProcessing"}

TierRank(t) == CASE t = "high" -> 1 [] t = "normal" -> 2 [] t = "low" -> 3

\* C1: in every reachable state the number of jobs whose status is
\* 'processing' is at most MAX_CONCURRENT_JOBS.
C1_ProcessingWithinLimit == Cardinality(ProcessingJobs) <= MAX_CONCURRENT_JOBS

\* The limit is reached while a job waits in a tier.
C1_Witness ==
    /\ Cardinality(ProcessingJobs) = MAX_CONCURRENT_JOBS
    /\ \E j \in JobIds : InQueue(j)

\* C2: the status of a job only moves queued -> processing ->
\* {complete, failed, cancelled}, or queued -> cancelled; in particular a
\* cancelled job never becomes complete.  (A job object is created queued,
\* and queueJob may start it in the stretch of code that creates it.)
StatusMoves ==
    {<<"none", "queued">>, <<"none", "processing">>, <<"queued", "processing">>,
     <<"queued", "cancelled">>, <<"processing", "complete">>,
     <<"processing", "failed">>, <<"processing", "cancelled">>}

C2_StatusStateMachine ==
    [][\A j \in JobIds :
         job'[j].status # job[j].status => <<job[j].status, job'[j].status>> \in StatusMoves]_vars

\* C3: a terminal job that is in the completed-job cache is not mutated
\* again, so status() keeps returning the same values for it.
C3_TerminalImmutable ==
    [][\A j \in JobIds :
         (j \in completedJobs /\ job[j].status \in Terminal) => job'[j] = job[j]]_vars

\* C4: whenever the dispatcher starts a job taken from tier T, every tier
\* of higher priority is empty at that moment: no job of a higher tier is
\* taken later by the same dispatch, and none is left waiting after it.
C4_StrictPriority ==
    [][StartedNow # {} =>
         \A i \in 1..Len(lastStarted') :
            /\ \A t \in TierNames :
                 TierRank(t) < TierRank(lastStarted'[i].tier) => jobQueue'[t] = <<>>
            /\ \A k \in (i + 1)..Len(lastStarted') :
                 TierRank(lastStarted'[k].tier) >= TierRank(lastStarted'[i].tier)]_vars

\* A job has been taken from the high tier past a job of a lower tier that
\* was enqueued before it.
C4_Witness ==
    /\ lastStarted # <<>>
    /\ Last(lastStarted).tier = "high"
    /\ \E t \in {"normal", "low"} :
         \E a \in Range(jobQueue[t]) : a < Last(lastStarted).job

\* C5: within one tier jobs are started in the order they were enqueued
\* (job ids are numbered in that order): when a job is taken from a tier,
\* no job enqueued before it is still waiting in that tier or is taken
\* after it.
C5_FifoWithinTier ==
    [][StartedNow # {} =>
         \A i \in 1..Len(lastStarted') :
            /\ \A a \in Range(jobQueue'[lastStarted'[i].tier]) : a > lastStarted'[i].job
            /\ \A k \in (i + 1)..Len(lastStarted') :
                 lastStarted'[k].tier = lastStarted'[i].tier
                    => lastStarted'[k].job > lastStarted'[i].job]_vars

\* A job has been taken from a tier in which a later job still waits.
C5_Witness ==
    /\ lastStarted # <<>>
    /\ \E a \in Range(jobQueue[Last(lastStarted).tier]) : a > Last(lastStarted).job

\* C6: once cancelJob has marked a processing job cancelled, the await the
\* worker is parked on may settle, but the worker runs no further stage
\* and no further job-update event is emitted for the job.
C6_CancelStopsWorker ==
    [][\A j \in JobIds :
         job[j].status = "cancelled" =>
            /\ events'[j] = events[j]
            /\ pc'[j] # pc[j] => pc'[j] \in {"done", "thrown"}]_vars

\* C7: a job cancelled while it waits in a tier is removed from the tier,
\* the store records 'cancelled' for it, and it never becomes processing:
\* a job object that is queued and in no tier stays so for ever.
Removed(j) == job[j].status = "queued" /\ ~InQueue(j)

C7_QueuedCancelNeverRuns ==
    /\ [](\A j \in JobIds :
            cancelRet[j] = "queuedOk" =>
               /\ Removed(j)
               /\ pc[j] = "idle"
               /\ j \notin activeJobs
               /\ store[j].status = "cancelled")
    /\ [][\A j \in JobIds : Removed(j) => Removed(j)' /\ pc'[j] = "idle"]_vars

\* A job was cancelled in its tier and a slot is free, yet it is not started.
C7_Witness ==
    \E j \in JobIds :
       /\ cancelRet[j] = "queuedOk"
       /\ store[j].status = "cancelled"
       /\ Cardinality(activeJobs) < MAX_CONCURRENT_JOBS

\* C8: when the pipeline of a processing job fails, the job becomes
\* 'failed' and leaves the active set.
C8_FailureMarksFailed ==
    \A j \in JobIds : pc[j] = "thrown" => job[j].status = "failed" /\ j \notin activeJobs

\* C9: a failed job does not stop the scheduling of the others: a job never
\* waits in a tier behind an active set made of jobs whose worker has
\* ended, since nothing would dispatch it any more.
C9_FailureKeepsDispatching ==
    \A j \in JobIds : InQueue(j) => \E a \in activeJobs : pc[a] # "thrown"

\* C10: every job that entered processing ends with a job-update event that
\* carries a terminal status: when the worker has ended, the last event
\* emitted on the job's channel is terminal.
C10_TerminalEventEmitted ==
    \A j \in JobIds :
       pc[j] \in {"done", "thrown"} =>
          events[j] # <<>> /\ Last(events[j]).status \in Terminal

\* C11: when discovery returns zero pages no extractor is run, the
\* aggregate that is built and saved has blog.hasBlog = false and an empty
\* images.all, and the job becomes complete with progress 100 and the
\* message 'Scrape completed with minimal results'; the store then records
\* 'complete'.
C11_ZeroPagesMinimal ==
    /\ [](\A j \in JobIds :
            pc[j] \in {"minSave", "minUpdate"} =>
               /\ extIdx[j] = 0 /\ extracted[j] = {} /\ pageContents[j] = 0
               /\ results[j].blog.hasBlog = FALSE
               /\ results[j].images.all = <<>>)
    /\ [][\A j \in JobIds :
            /\ (pc[j] = "discover" /\ pc'[j] \notin {"discover", "thrown"} /\ pages'[j] = 0)
                  => pc'[j] = "minSave"
            /\ (pc[j] \in {"minSave", "minUpdate"} /\ pc'[j] # pc[j])
                  => pc'[j] \in {"minUpdate", "done", "thrown"}
            /\ (pc[j] = "minSave" /\ pc'[j] = "minUpdate")
                  => /\ savedResults'[j].blog.hasBlog = FALSE
                     /\ savedResults'[j].images.all = <<>>
                     /\ job'[j].status = "complete"
                     /\ job'[j].progress = 100
                     /\ job'[j].message = "Scrape completed with minimal results"
            /\ (pc[j] = "minUpdate" /\ pc'[j] = "done")
                  => store'[j].status = "complete"]_vars

\* A job with zero pages has ended complete with its minimal results saved.
C11_Witness ==
    \E j \in JobIds :
       /\ pc[j] = "done"
       /\ savedResults[j] = minimalResults
       /\ job[j].status = "complete"
       /\ job[j].message = "Scrape completed with minimal results"
       /\ store[j].status = "complete"

\* C12: an extractor that throws does not stop the job: whatever extractors
\* failed, and so when exactly one did, the aggregate that is built holds
\* the output of each extractor that succeeded and the default of each
\* section whose extractor failed, and the job becomes complete and is
\* recorded complete in the store.
C12_ExtractorIsolation ==
    /\ [](\A j \in JobIds :
            pc[j] \in {"storeData", "finalUpdate"} =>
               \A i \in 1..Len(Extractors) :
                  results[j][Extractors[i]] =
                     IF Extractors[i] \in extracted[j] THEN Output(Extractors[i])
                     ELSE DefaultSection(Extractors[i]))
    /\ [][\A j \in JobIds :
            /\ (pc[j] = "extractors" /\ pc'[j] # pc[j])
                  => pc'[j] \in {"storeData", "finalUpdate"}
            /\ (pc[j] \in {"extractors", "storeData"} /\ pc'[j] = "finalUpdate")
                  => job'[j].status = "complete" /\ job'[j].progress = 100
            /\ (pc[j] = "finalUpdate" /\ pc'[j] = "done")
                  => store'[j].status = "complete"]_vars

\* A job has ended complete after exactly one of its extractors failed, and
\* the aggregate written for it has the default in exactly one section.
C12_Witness ==
    \E j \in JobIds :
       /\ pc[j] = "done"
       /\ job[j].status = "complete"
       /\ domainInfoData[j] # NoResults
       /\ Cardinality({e \in Sections : domainInfoData[j][e] = DefaultSection(e)}) = 1

\* C13: every aggregate result a job builds or persists, on the zero-pages
\* path and on the normal path, has all of the fixed sections.
HasAllSections(r) == r # NoResults => Sections \subseteq DOMAIN r

C13_AllSectionsPresent ==
    \A j \in JobIds :
       /\ HasAllSections(results[j])
       /\ HasAllSections(savedResults[j])
       /\ HasAllSections(domainInfoData[j])

\* C14: the progress values of the successive job-update events of a job
\* never decrease, and the last event of a job that ends complete carries
\* progress 100.
NonDecreasing(o) == \A i \in 1..(Len(o) - 1) : o[i].progress <= o[i + 1].progress

C14_EventProgressMonotone ==
    [][\A j \in JobIds :
         events'[j] # events[j] =>
            /\ NonDecreasing(events'[j])
            /\ events[j] # <<>> =>
                  \A i \in 1..Len(events'[j]) :
                     \/ events'[j][i] \in Range(events[j])
                     \/ events'[j][i].progress >= Last(events[j]).progress
            /\ (pc'[j] = "done" /\ job'[j].status = "complete")
                  => Last(events'[j]).progress = 100]_vars

\* C15: the progress field of a job object never decreases, also when the
\* job is cancelled while it is processing.
C15_JobProgressMonotone ==
    [][\A j \in JobIds : job'[j].progress >= job[j].progress]_vars

\* C16: when saveJob fails, queueJob throws and leaves the queue and the
\* active set as they were: the job is in no tier, then or later, and is
\* never dispatched.
C16_SaveFailureNotEnqueued ==
    /\ [](\A j \in JobIds :
            queueCall[j] = "threw" =>
               /\ ~InQueue(j)
               /\ j \notin activeJobs
               /\ pc[j] = "idle"
               /\ job[j] = NoJob)
    /\ [][\A j \in JobIds :
            (queueCall[j] = "none" /\ queueCall'[j] = "threw") =>
               /\ jobQueue' = jobQueue
               /\ activeJobs' = activeJobs
               /\ StartedNow = {}]_vars

\* A submission has failed while a worker slot was free.
C16_Witness ==
    \E j \in JobIds :
       /\ queueCall[j] = "threw"
       /\ Cardinality(activeJobs) < MAX_CONCURRENT_JOBS

\* C17: a successful queueJob returns the status 'queued', whether or not a
\* worker slot is free when the job is submitted.
C17_SubmitReturnsQueued ==
    [][\A j \in JobIds :
         (queueCall[j] = "none" /\ queueCall'[j] = "returned")
            => queueJobReturn(job'[j]).status = "queued"]_vars

\* C18: cancelJob on an active job marks the job object cancelled before
\* it awaits the store; when the store write resolves, the store records
\* 'cancelled', the job has left the active set for the completed cache,
\* and if the job still held its slot and a tier is non-empty, the job at
\* the head of the highest non-empty tier is started in the same step.
C18_CancelActiveFreesSlot ==
    [][\A j \in JobIds :
         /\ (cancelCall[j] = "idle" /\ cancelCall'[j] = "active")
               => j \in activeJobs /\ job'[j].status = "cancelled"
         /\ (cancelCall[j] = "active" /\ cancelCall'[j] = "idle" /\ cancelRet'[j] = "activeOk")
               => /\ store'[j].status = "cancelled"
                  /\ j \notin activeJobs'
                  /\ j \in completedJobs'
                  /\ (j \in activeJobs /\ NextTier(jobQueue) # "none")
                        => /\ lastStarted' # <<>>
                           /\ lastStarted'[1].job = Head(jobQueue[NextTier(jobQueue)])
                           /\ lastStarted'[1].job \in activeJobs'
                           /\ job'[lastStarted'[1].job].status = "processing"]_vars

\* An active job has been cancelled and a queued job started in its slot.
C18_Witness ==
    \E j \in JobIds :
       /\ cancelRet[j] = "activeOk"
       /\ job[j].status = "cancelled"
       /\ store[j].status = "cancelled"
       /\ j \notin activeJobs
       /\ lastStarted # <<>>

\* C19: cancelJob never raises.  For an id the scheduler has never held
\* and the store has no row of, it returns {success: false} ('Job not
\* found', or the error message when the store call fails); whenever its
\* store write fails, in any branch, it returns {success: false} with the
\* error message.
C19_CancelNeverRaises ==
    /\ [](\A j \in JobIds :
            /\ cancelRet[j] # "threw"
            /\ (queueCall[j] \in {"none", "threw"} /\ cancelRet[j] # "none")
                  => cancelRet[j] \in {"notFound", "error"})
    /\ [][/\ (faults' # faults /\ cancels' # cancels)
               => \E j \in JobIds : cancelCall[j] = "idle" /\ cancelRet'[j] = "error"
          /\ \A j \in JobIds :
               (cancelCall[j] # "idle" /\ cancelCall'[j] = "idle" /\ faults' # faults)
                  => cancelRet'[j] = "error"]_vars

\* cancelJob was called for an unknown id while the store was failing.
C19_Witness ==
    \E j \in JobIds : queueCall[j] = "none" /\ cancelRet[j] = "error"

\* cancelJob was called for an unknown id and found no row.
C19_WitnessNotFound ==
    \E j \in JobIds : queueCall[j] = "none" /\ cancelRet[j] = "notFound"

\* C20: cancelJob on a job that is already terminal changes nothing: a
\* terminal status, of the job object or of the store row, is never
\* replaced by 'cancelled'.
C20_CancelTerminalNoOp ==
    [][\A j \in JobIds :
         /\ (job[j].status \in Terminal /\ job'[j].status = "cancelled")
               => job[j].status = "cancelled"
         /\ (store[j].status \in Terminal /\ store'[j].status = "cancelled")
               => store[j].status = "cancelled"]_vars

\* C21: init() pushes every pending job the store returned into the tier of
\* its priority (normal when the priority is no tier name), as 'queued'
\* even when its row said 'processing', and then dispatches: as many
\* recovered jobs as there are slots are started, in strict priority order,
\* and the others wait in their tiers.
InitTier(p) == IF p \in TierNames THEN p ELSE "normal"

Min(a, b) == IF a < b THEN a ELSE b

C21_InitRecovery ==
    [][(~initDone /\ initDone') =>
         /\ faults' = faults =>
               {pendingJobs'[i].job : i \in 1..Len(pendingJobs')}
                  = {j \in JobIds : store[j].status \in {"queued", "processing"}}
         /\ \A i \in 1..Len(pendingJobs') :
               LET r == pendingJobs'[i]
                   t == InitTier(r.priority)
               IN  \/ /\ r.job \in Range(jobQueue'[t])
                      /\ job'[r.job].status = "queued"
                      /\ pc'[r.job] = "idle"
                   \/ /\ \E k \in 1..Len(lastStarted') :
                            lastStarted'[k] = [job |-> r.job, tier |-> t]
                      /\ job'[r.job].status = "processing"
                      /\ r.job \in activeJobs'
         /\ Len(lastStarted') = Min(MAX_CONCURRENT_JOBS, Len(pendingJobs'))
         /\ \A k \in 1..Len(lastStarted') :
               /\ \A t \in TierNames :
                    TierRank(t) < TierRank(lastStarted'[k].tier) => jobQueue'[t] = <<>>
               /\ \A m \in (k + 1)..Len(lastStarted') :
                    TierRank(lastStarted'[m].tier) >= TierRank(lastStarted'[k].tier)]_vars

\* init() has just recovered two jobs: one was started, the other, whose
\* row said 'processing', waits as 'queued'.
C21_Witness ==
    /\ lastStarted # <<>>
    /\ \E i \in 1..Len(pendingJobs) :
         /\ pendingJobs[i].status = "processing"
         /\ job[pendingJobs[i].job].status = "queued"
         /\ InQueue(pendingJobs[i].job)

\* C22: a cancellation is announced on the job's channel: once cancelJob has
\* returned success for an active or a queued job, a job-update event with
\* status 'cancelled' has been emitted on job-{jobId}; the step in which
\* the call returns leaves such an event among the last ones of the channel.
C22_CancelEmitsEvent ==
    [][\A j \in JobIds :
         (cancelCall[j] # "idle" /\ cancelCall'[j] = "idle"
             /\ cancelRet'[j] \in {"activeOk", "queuedOk"})
            => \E i \in 1..Len(events'[j]) : events'[j][i].status = "cancelled"]_vars

\* C23: whatever the state of the publisher (working, absent, raising), a
\* worker ends by an error only when one of its awaited calls rejected,
\* and each stage that announces a progress value leaves the job at that
\* value and moves on to the same next stage.
C23_PublisherFailureHarmless ==
    [][\A j \in JobIds :
         /\ (pc[j] # "thrown" /\ pc'[j] = "thrown") => faults' = faults + 1
         /\ (pc[j] = "canResume" /\ pc'[j] # pc[j] /\ faults' = faults)
               => pc'[j] = "domainInfo" /\ job'[j].progress = 10
         /\ (pc[j] = "discover" /\ pc'[j] # pc[j] /\ faults' = faults)
               => \/ pc'[j] = "minSave" /\ job'[j].progress = 90
                  \/ pc'[j] = "extractPage" /\ job'[j].progress = 30
         /\ (pc[j] = "extractPage" /\ pc'[j] # pc[j] /\ faults' = faults)
               => pc'[j] = "extractors" /\ job'[j].progress = 60
         /\ (pc[j] \in {"minUpdate", "finalUpdate"} /\ pc'[j] # pc[j] /\ faults' = faults)
               => pc'[j] = "done" /\ j \in completedJobs' /\ j \notin activeJobs']_vars

\* A job has run to completion under a publisher whose emit raises.
C23_Witness ==
    /\ io = "raises"
    /\ \E j \in JobIds :
         /\ pc[j] = "done"
         /\ job[j].status = "complete"
         /\ job[j].progress = 100
         /\ store[j].status = "complete"

\* C24: the completed-job cache never holds more than MAX_COMPLETED_JOBS
\* entries, however many jobs have ended.
C24_CacheBounded == Cardinality(completedJobs) <= MAX_COMPLETED_JOBS

\* C25: every job in the completed cache has a terminal status recorded in
\* the store.
C25_CacheBackedByStore ==
    \A j \in JobIds : j \in completedJobs => store[j].status \in Terminal

\* C26: a job object is complete only when the aggregate result of the job
\* has been persisted, by saveResults or in the domain record.
C26_CompleteOnlyAfterPersist ==
    \A j \in JobIds :
       job[j].status = "complete" =>
          savedResults[j] # NoResults \/ domainInfoData[j] # NoResults

\* C27: when discoverPages fails, the worker goes on as if no page had been
\* found: it builds the minimal results and takes the zero-pages branch.
C27_DiscoveryFailureIsZeroPages ==
    [][\A j \in JobIds :
         (pc[j] = "discover" /\ pc'[j] # pc[j] /\ faults' # faults)
            => pc'[j] = "minSave" /\ results'[j] = minimalResults]_vars

\* C28: getJobStatus answers from the active set when the job is active,
\* otherwise from the completed cache when the job is there, and from the
\* store only when the job is in neither map.
C28_StatusLookupOrder ==
    \A j \in JobIds :
       /\ j \in activeJobs
             => getJobStatus(j) = [from |-> "activeJobs", status |-> job[j].status]
       /\ (j \notin activeJobs /\ j \in completedJobs)
             => getJobStatus(j) = [from |-> "completedJobs", status |-> job[j].status]
       /\ getJobStatus(j).from = "store" <=> j \notin activeJobs \cup completedJobs

\* An active job and a cached job whose store rows say something else than
\* the job objects getJobStatus answers with.
C28_Witness ==
    /\ \E j \in activeJobs : store[j].status # job[j].status
    /\ \E j \in completedJobs \ activeJobs : store[j].status # job[j].status

\* C29: a job the scheduler runs for a domain that was crawled within the
\* cooldown window gets the page set of that crawl: nothing is fetched
\* again, so the stored crawl and the pages of the job are those pages.
C29_CooldownReusesCrawl ==
    [][\A j \in JobIds :
         (pc[j] = "discover" /\ pc'[j] \notin {"discover", "thrown"} /\ lastCrawl.crawled)
            => pages'[j] = lastCrawl.pages /\ lastCrawl' = lastCrawl]_vars

\* C30: the workers that are still running (processJob called and neither
\* returned nor thrown) are never more than MAX_CONCURRENT_JOBS, also after
\* a cancellation has given the slot of a running job to a queued job.
RunningWorkers == {j \in JobIds : pc[j] \notin {"idle", "done", "thrown"}}

C30_WorkersWithinLimit == Cardinality(RunningWorkers) <= MAX_CONCURRENT_JOBS

\* C31: dispatch is work-conserving.  Between two steps of the scheduler a
\* job waits in a tier only if the active set holds MAX_CONCURRENT_JOBS
\* jobs; and the step in which a job leaves the active set, by completion
\* or by cancellation, starts the job at the head of the highest non-empty
\* tier in the slot it frees.
C31_WorkConserving ==
    /\ []((\E j \in JobIds : InQueue(j)) => Cardinality(activeJobs) = MAX_CONCURRENT_JOBS)
    /\ [][\A j \in JobIds :
            (j \in activeJobs /\ j \notin activeJobs' /\ NextTier(jobQueue) # "none")
               => /\ lastStarted' # <<>>
                  /\ lastStarted'[1].job = Head(jobQueue[NextTier(jobQueue)])
                  /\ lastStarted'[1].job \in activeJobs'
                  /\ pc'[lastStarted'[1].job] = "updProcessing"]_vars

\* A worker has completed its job and the job that waited behind it has
\* been started by the same step.
C31_Witness ==
    \E j \in JobIds :
       /\ pc[j] = "done"
       /\ job[j].status = "complete"
       /\ j \in completedJobs
       /\ lastStarted # <<>>
       /\ Last(lastStarted).job \in activeJobs
\* The workers that are past the domain_info stage and still processing.
PastDomainInfo ==
    {j \in JobIds : /\ job[j].status = "processing"
                    /\ pc[j] \in {"discover", "minSave", "extractPage", "extractors", "storeData"}}

\* C32: when two jobs of the domain are processing concurrently, the
\* domain has at most one domain_info row, and once both workers are past
\* the select-then-insert, with no awaited call having failed, both hold
\* the id of that row.
C32_DomainRecordOnce ==
    /\ domainRows <= 1
    /\ \A a, b \in PastDomainInfo :
          (a # b /\ faults = 0) =>
             /\ domainInfoId[a] # 0
             /\ domainInfoId[a] = domainInfoId[b]

\* C33: when cancelJob returns {success: false} because its store write
\* failed, the scheduler is as it was before the call: the job it found in
\* a tier still waits in a tier (or has been started since), with status
\* 'queued' while it waits, and the job it found in the active set has not
\* become 'cancelled'.
C33_CancelFailureLeavesState ==
    [][\A j \in JobIds :
         (cancelCall[j] # "idle" /\ cancelCall'[j] = "idle" /\ cancelRet'[j] = "error") =>
            /\ cancelCall[j] = "queued" =>
                  /\ InQueue(j)' \/ j \in activeJobs' \/ j \in completedJobs'
                  /\ InQueue(j)' => job'[j].status = "queued"
            /\ cancelCall[j] = "active" => job'[j].status # "cancelled"]_vars

\* C34: every job held in the active set has status 'processing', so
\* getJobStatus never answers from the active set with a job that is
\* already complete or cancelled.
C34_ActiveIsProcessing ==
    \A j \in JobIds :
       j \in activeJobs =>
          /\ job[j].status = "processing"
          /\ getJobStatus(j) = [from |-> "activeJobs", status |-> "processing"]

\* The number of places of the scheduler that hold job j.
PlacesOf(j) ==
    Cardinality({t \in TierNames : j \in Range(jobQueue[t])})
        + (IF j \in activeJobs THEN 1 ELSE 0)
        + (IF j \in completedJobs THEN 1 ELSE 0)

\* C35: job ids being unique, a job id is at any time in at most one of
\* the three tiers, the active set and the completed cache, and occurs at
\* most once in its tier.
C35_OnePlace ==
    \A j \in JobIds :
       /\ PlacesOf(j) <= 1
       /\ \A t \in TierNames :
             Cardinality({i \in 1..Len(jobQueue[t]) : jobQueue[t][i] = j}) <= 1

\* A cancelled job has reached the completed cache twice, by cancelJob and
\* by the end of its worker, while the job started in its slot is active.
C35_Witness ==
    \E j, k \in JobIds :
       /\ cancelRet[j] = "activeOk"
       /\ pc[j] = "done"
       /\ PlacesOf(j) = 1
       /\ j \in completedJobs
       /\ k \in activeJobs
       /\ PlacesOf(k) = 1
====
